---- MODULE Spec2Model ----
\* git-commit-gpt (src/main.rs): the main flow (staged diff, suggested commit
\* messages, interactive selection, git commit / git commit --amend) and the
\* keyboard-driven selector select_commit_message.
\*
\* Strings are sequences of one-character strings.  A panic (unwrap/expect on an
\* Err, an out-of-range index or slice, an arithmetic overflow in a build with
\* overflow checks) is recorded in `panic`; it unwinds out of every frame, so no
\* action is enabled afterwards.
EXTENDS Integers, Sequences, FiniteSets, TLC

VARIABLES
    overflow_checks, \* build profile: TRUE = debug (checked arithmetic), FALSE = release (wrapping)
    no_amend,        \* Arguments.no_amend
    main_pc,         \* position in main(); "harness" when select_commit_message is driven directly
    git_diff,        \* main: git_diff (stdout of git diff --staged)
    response,        \* get_suggested_commit_messages: response.choices[*].message.content
    gen,             \* commit_messages_result: "none" | "ok" | "err"
    commit_messages, \* select_commit_message: the commit_messages argument
    sel_pc,          \* position in select_commit_message
    index,           \* select_commit_message: index
    key_event,       \* select_commit_message: key_event of the current iteration
    keys,            \* history: the events the match statement has dispatched
    raw,             \* the terminal's input mode: TRUE = raw
    lines,           \* number of lines the selector has on screen
    outcome,         \* return value of select_commit_message
    panic,           \* "" or the cause of the panic that ended the process
    io_error,        \* history: "" or the terminal call that returned Err
    cmds,            \* history: the git commit invocations spawned, in order
    stderr           \* what main reported with eprintln!

vars == <<overflow_checks, no_amend, main_pc, git_diff, response, gen,
          commit_messages, sel_pc, index, key_event, keys, raw, lines,
          outcome, panic, io_error, cmds, stderr>>

\* ---------------------------------------------------------------- bounds

MaxKeys == 3
MaxLen == 2
MaxChoices == 2
MaxTextLen == 3
MaxDiffLen == 2

\* ----------------------------------------------------------------- texts

Quote == "\""
Space == " "
Chars == {Quote, Space, "a"}

RECURSIVE TextsUpTo(_, _)
TextsUpTo(alphabet, n) ==
    IF n = 0 THEN {<<>>}
    ELSE LET shorter == TextsUpTo(alphabet, n - 1)
         IN  shorter \cup {Append(t, c) : t \in shorter, c \in alphabet}

RECURSIVE ListsUpTo(_, _)
ListsUpTo(elems, n) ==
    IF n = 0 THEN {<<>>}
    ELSE LET shorter == ListsUpTo(elems, n - 1)
         IN  shorter \cup {Append(l, e) : l \in shorter, e \in elems}

Sentinel ==
    <<"E", "n", "t", "e", "r", " ", "a", " ", "c", "u", "s", "t", "o", "m", " ",
      "m", "e", "s", "s", "a", "g", "e", ".", ".", ".">>

\* str::trim: leading and trailing whitespace removed
RECURSIVE TrimStart(_)
TrimStart(s) ==
    IF s # <<>> /\ Head(s) = Space THEN TrimStart(Tail(s)) ELSE s

RECURSIVE TrimEnd(_)
TrimEnd(s) ==
    IF s # <<>> /\ s[Len(s)] = Space THEN TrimEnd(SubSeq(s, 1, Len(s) - 1)) ELSE s

Trim(s) == TrimEnd(TrimStart(s))

StartsWithQuote(s) == s # <<>> /\ s[1] = Quote
EndsWithQuote(s) == s # <<>> /\ s[Len(s)] = Quote

\* &s[1..s.len() - 1]: a slice whose start exceeds its end panics
SliceOk(s) == 1 <= Len(s) - 1

HasQuotePair(s) == StartsWithQuote(s) /\ EndsWithQuote(s)

\* the closure of get_suggested_commit_messages applied to one choice
StripPanics(content) ==
    LET s == Trim(content) IN HasQuotePair(s) /\ ~SliceOk(s)

StripChoice(content) ==
    LET s == Trim(content)
    IN  IF HasQuotePair(s) THEN SubSeq(s, 2, Len(s) - 1) ELSE s

MapPanics(choices) == \E i \in 1..Len(choices) : StripPanics(choices[i])

CollectMessages(choices) == [i \in 1..Len(choices) |-> StripChoice(choices[i])]

\* the texts a generator may return, all of them up to MaxTextLen
AllTexts == TextsUpTo(Chars, MaxTextLen) \cup {Sentinel}

\* the texts the main flow is run on
SampleTexts == {<<"a">>, <<Quote, "a", Quote>>, <<Quote>>, Sentinel}

Diffs == TextsUpTo({Space, "a"}, MaxDiffLen)

\* -------------------------------------------------------------- selector

Events == {"Up", "Down", "Enter", "Esc", "Other"}

Pending == [kind |-> "pending", msg |-> <<>>]
Cancelled == [kind |-> "None", msg |-> <<>>]
Selected(m) == [kind |-> "Some", msg |-> m]

\* KeyCode::Up arm without its guard
KeyUpNoClamp(i) == i - 1

\* KeyCode::Up arm
KeyUp(i) == IF i > 0 THEN i - 1 ELSE i

\* commit_messages.len() - 1 on usize: overflows when the list is empty
LenMinusOneOverflows(n) == n = 0

\* index < commit_messages.len() - 1; with an empty list and wrapping
\* arithmetic the right-hand side is usize::MAX, above every index reached
BelowLast(i, n) == IF LenMinusOneOverflows(n) THEN TRUE ELSE i < n - 1

\* KeyCode::Down arm wrapping around at the bottom
KeyDownWrap(i, n) == IF n = 0 THEN i + 1 ELSE (i + 1) % n

\* KeyCode::Down arm
KeyDown(i, n) == IF BelowLast(i, n) THEN i + 1 ELSE i

\* the match statement with the Esc arm breaking like Enter
FlowEscBreaks(ev) ==
    CASE ev = "Enter" -> "break"
      [] ev = "Esc"   -> "break"
      [] OTHER        -> "loop"

\* the match statement with the wildcard arm breaking
FlowOtherBreaks(ev) ==
    CASE ev = "Enter" -> "break"
      [] ev = "Esc"   -> "return_none"
      [] ev = "Other" -> "break"
      [] OTHER        -> "loop"

\* the match statement: where control goes for each event
Flow(ev) ==
    CASE ev = "Enter" -> "break"
      [] ev = "Esc"   -> "return_none"
      [] OTHER        -> "loop"

\* the index after the match statement
NextIndex(ev, i, n) ==
    CASE ev = "Up"   -> KeyUp(i)
      [] ev = "Down" -> KeyDown(i, n)
      [] OTHER       -> i

\* commit_messages[index]: in range
IndexOk(i, n) == i < n

\* a panic unwinds out of select_commit_message and out of main
Unwind(cause) ==
    /\ panic' = cause
    /\ sel_pc' = IF sel_pc \in {"idle", "returned"} THEN sel_pc ELSE "panicked"
    /\ main_pc' = IF main_pc = "harness" THEN main_pc ELSE "panicked"

\* .unwrap() on the Err of a terminal call
Fail(call) == io_error' = call /\ Unwind(call)

\* top of the loop: render the list, then terminal::enable_raw_mode().unwrap()
EnableRaw ==
    /\ sel_pc = "enable"
    /\ lines' = lines + Len(commit_messages) + 1
    /\ \E ok \in BOOLEAN :
        IF ok
        THEN /\ raw' = TRUE
             /\ sel_pc' = "read"
             /\ UNCHANGED <<panic, main_pc, io_error>>
        ELSE /\ raw' = raw
             /\ Fail("enable_raw_mode")
    /\ UNCHANGED <<overflow_checks, no_amend, git_diff, response, gen,
                   commit_messages, index, key_event, keys, outcome, cmds, stderr>>

\* event::read().unwrap()
ReadEvent ==
    /\ sel_pc = "read"
    /\ Len(keys) < MaxKeys
    /\ \E r \in Events \cup {"Err"} :
        IF r # "Err"
        THEN /\ key_event' = r
             /\ sel_pc' = "disable"
             /\ UNCHANGED <<panic, main_pc, io_error>>
        ELSE /\ key_event' = key_event
             /\ Fail("event::read")
    /\ UNCHANGED <<overflow_checks, no_amend, git_diff, response, gen,
                   commit_messages, index, keys, raw, lines, outcome, cmds, stderr>>

\* terminal::disable_raw_mode().unwrap()
DisableRaw ==
    /\ sel_pc = "disable"
    /\ \E ok \in BOOLEAN :
        IF ok
        THEN /\ raw' = FALSE
             /\ sel_pc' = "clear"
             /\ UNCHANGED <<panic, main_pc, io_error>>
        ELSE /\ raw' = raw
             /\ Fail("disable_raw_mode")
    /\ UNCHANGED <<overflow_checks, no_amend, git_diff, response, gen,
                   commit_messages, index, key_event, keys, lines, outcome, cmds, stderr>>

\* term.clear_last_lines(commit_messages.len() + 1).unwrap()
ClearLines ==
    /\ sel_pc = "clear"
    /\ \E ok \in BOOLEAN :
        IF ok
        THEN /\ lines' = lines - (Len(commit_messages) + 1)
             /\ sel_pc' = "match"
             /\ UNCHANGED <<panic, main_pc, io_error>>
        ELSE /\ lines' = lines
             /\ Fail("clear_last_lines")
    /\ UNCHANGED <<overflow_checks, no_amend, git_diff, response, gen,
                   commit_messages, index, key_event, keys, raw, outcome, cmds, stderr>>

\* match key_event { ... }, and after a break the return of
\* Some(commit_messages[index].clone())
MatchKey ==
    /\ sel_pc = "match"
    /\ keys' = Append(keys, key_event)
    /\ LET n == Len(commit_messages)
           i == NextIndex(key_event, index, n)
           f == Flow(key_event)
       IN  IF key_event = "Down" /\ LenMinusOneOverflows(n) /\ overflow_checks
           THEN /\ Unwind("attempt to subtract with overflow")
                /\ UNCHANGED <<index, outcome>>
           ELSE /\ index' = i
                /\ CASE f = "loop" ->
                          /\ sel_pc' = "enable"
                          /\ UNCHANGED <<outcome, panic, main_pc>>
                     [] f = "return_none" ->
                          /\ sel_pc' = "returned"
                          /\ outcome' = Cancelled
                          /\ UNCHANGED <<panic, main_pc>>
                     [] f = "break" ->
                          IF IndexOk(i, n)
                          THEN /\ sel_pc' = "returned"
                               /\ outcome' = Selected(commit_messages[i + 1])
                               /\ UNCHANGED <<panic, main_pc>>
                          ELSE /\ Unwind("index out of bounds")
                               /\ UNCHANGED outcome
    /\ UNCHANGED <<overflow_checks, io_error, no_amend, git_diff, response, gen,
                   commit_messages, key_event, raw, lines, cmds, stderr>>

SelectorStep == EnableRaw \/ ReadEvent \/ DisableRaw \/ ClearLines \/ MatchKey

\* select_commit_message driven directly on every list up to MaxLen
SelLists == ListsUpTo({Sentinel, <<"a">>, <<"b">>}, MaxLen)

InitSel ==
    /\ overflow_checks \in BOOLEAN
    /\ no_amend = FALSE
    /\ main_pc = "harness"
    /\ git_diff = <<>>
    /\ response = <<>>
    /\ gen = "none"
    /\ commit_messages \in SelLists
    /\ sel_pc = "enable"
    /\ index = 0
    /\ key_event = "none"
    /\ keys = <<>>
    /\ raw = FALSE
    /\ lines = 0
    /\ outcome = Pending
    /\ panic = ""
    /\ io_error = ""
    /\ cmds = <<>>
    /\ stderr = ""

SpecSel == InitSel /\ [][SelectorStep]_vars

\* ------------------------------------------------------------- main flow

\* the empty check without the trim
DiffIsEmptyNoTrim(d) == d = <<>>

\* git_diff.trim().is_empty()
DiffIsEmpty(d) == Trim(d) = <<>>

\* selected_message == "Enter a custom message..."
IsCustom(m) == m = Sentinel

\* the arguments of the commit invocation for a selected message
CommitCommand(m) ==
    IF IsCustom(m)
    THEN [op |-> "commit", has_msg |-> FALSE, msg |-> <<>>]
    ELSE [op |-> "commit", has_msg |-> TRUE, msg |-> m]

AmendCommand == [op |-> "amend", has_msg |-> FALSE, msg |-> <<>>]

\* the amend step not gated by the flag
AmendFollowsAlways(m, na) == ~IsCustom(m)

\* whether git commit --amend follows the commit
AmendFollows(m, na) == ~IsCustom(m) /\ ~na

\* let mut options = vec![sentinel]; options.extend(commit_messages)
Options(msgs) == <<Sentinel>> \o msgs

selVars == <<commit_messages, sel_pc, index, key_event, keys, raw, lines, outcome>>

\* Command::new("git") diff --staged, the status check, the UTF-8 check and the
\* empty check
GitDiff ==
    /\ main_pc = "start"
    /\ \E r \in {"spawn_err", "status_fail", "bad_utf8", "ok"} : \E d \in Diffs :
        CASE r = "spawn_err" ->
               /\ Unwind("Failed to execute git diff command")
               /\ UNCHANGED <<git_diff, stderr>>
          [] r = "status_fail" ->
               /\ stderr' = "Error executing git diff command"
               /\ main_pc' = "done"
               /\ UNCHANGED <<git_diff, panic, sel_pc>>
          [] r = "bad_utf8" ->
               /\ Unwind("Invalid UTF-8 in git diff output")
               /\ UNCHANGED <<git_diff, stderr>>
          [] r = "ok" ->
               /\ git_diff' = d
               /\ stderr' = IF DiffIsEmpty(d) THEN "no changes added to commit" ELSE stderr
               /\ main_pc' = IF DiffIsEmpty(d) THEN "done" ELSE "fetch"
               /\ UNCHANGED <<panic, sel_pc>>
    /\ UNCHANGED <<overflow_checks, io_error, no_amend, response, gen, commit_messages,
                   index, key_event, keys, raw, lines, outcome, cmds>>

\* get_suggested_commit_messages(...).await and the match on its result, up to
\* the call of select_commit_message(options)
Fetch ==
    /\ main_pc = "fetch"
    /\ \E r \in {"no_api_key", "err", "ok"} :
       \E choices \in ListsUpTo(SampleTexts, MaxChoices) :
        CASE r = "no_api_key" ->
               /\ Unwind("OPENAI_API_KEY not found")
               /\ UNCHANGED <<response, gen, stderr, commit_messages>>
          [] r = "err" ->
               /\ gen' = "err"
               /\ stderr' = "Error"
               /\ main_pc' = "done"
               /\ UNCHANGED <<response, panic, sel_pc, commit_messages>>
          [] r = "ok" ->
               /\ response' = choices
               /\ IF MapPanics(choices)
                  THEN /\ Unwind("slice index starts at 1 but ends at 0")
                       /\ UNCHANGED <<gen, commit_messages>>
                  ELSE /\ gen' = "ok"
                       /\ commit_messages' = Options(CollectMessages(choices))
                       /\ main_pc' = "select"
                       /\ sel_pc' = "enable"
                       /\ UNCHANGED panic
               /\ UNCHANGED stderr
    /\ UNCHANGED <<overflow_checks, io_error, no_amend, git_diff, index, key_event, keys,
                   raw, lines, outcome, cmds>>

\* Command::new("git")...spawn().unwrap().wait().unwrap(): the command is
\* spawned unless spawn fails; a failed spawn or wait panics
Run(cmd, r, next) ==
    /\ cmds' = IF r = "spawn_err" THEN cmds ELSE Append(cmds, cmd)
    /\ IF r = "ok"
       THEN main_pc' = next /\ UNCHANGED <<panic, sel_pc>>
       ELSE Unwind(r)

\* if let Some(selected_message) = ... : the commit invocation
Commit ==
    /\ main_pc = "select"
    /\ sel_pc = "returned"
    /\ IF outcome.kind = "None"
       THEN /\ main_pc' = "done"
            /\ UNCHANGED <<cmds, panic, sel_pc>>
       ELSE \E r \in {"ok", "spawn_err", "wait_err"} :
              Run(CommitCommand(outcome.msg), r,
                  IF AmendFollows(outcome.msg, no_amend) THEN "amend" ELSE "done")
    /\ UNCHANGED <<overflow_checks, io_error, no_amend, git_diff, response, gen, stderr,
                   commit_messages, index, key_event, keys, raw, lines, outcome>>

\* if !args.no_amend { git commit --amend }
Amend ==
    /\ main_pc = "amend"
    /\ \E r \in {"ok", "spawn_err", "wait_err"} : Run(AmendCommand, r, "done")
    /\ UNCHANGED <<overflow_checks, io_error, no_amend, git_diff, response, gen, stderr,
                   commit_messages, index, key_event, keys, raw, lines, outcome>>

Init ==
    /\ overflow_checks \in BOOLEAN
    /\ no_amend \in BOOLEAN
    /\ main_pc = "start"
    /\ git_diff = <<>>
    /\ response = <<>>
    /\ gen = "none"
    /\ commit_messages = <<>>
    /\ sel_pc = "idle"
    /\ index = 0
    /\ key_event = "none"
    /\ keys = <<>>
    /\ raw = FALSE
    /\ lines = 0
    /\ outcome = Pending
    /\ panic = ""
    /\ io_error = ""
    /\ cmds = <<>>
    /\ stderr = ""

Next ==
    \/ GitDiff
    \/ Fetch
    \/ EnableRaw
    \/ ReadEvent
    \/ DisableRaw
    \/ ClearLines
    \/ MatchKey
    \/ Commit
    \/ Amend

Spec == Init /\ [][Next]_vars

\* ------------------------------------------- the map over response.choices

\* response.choices.into_iter().map(...).collect() on its own
MapChoices ==
    /\ main_pc = "map"
    /\ IF MapPanics(response)
       THEN /\ panic' = "slice index starts at 1 but ends at 0"
            /\ main_pc' = "panicked"
            /\ UNCHANGED <<gen, commit_messages>>
       ELSE /\ gen' = "ok"
            /\ commit_messages' = CollectMessages(response)
            /\ main_pc' = "mapped"
            /\ UNCHANGED panic
    /\ UNCHANGED <<overflow_checks, io_error, no_amend, git_diff, response, sel_pc, index,
                   key_event, keys, raw, lines, outcome, cmds, stderr>>

InitGen ==
    /\ overflow_checks = FALSE
    /\ no_amend = FALSE
    /\ main_pc = "map"
    /\ git_diff = <<>>
    /\ response \in ListsUpTo(AllTexts, MaxChoices)
    /\ gen = "none"
    /\ commit_messages = <<>>
    /\ sel_pc = "idle"
    /\ index = 0
    /\ key_event = "none"
    /\ keys = <<>>
    /\ raw = FALSE
    /\ lines = 0
    /\ outcome = Pending
    /\ panic = ""
    /\ io_error = ""
    /\ cmds = <<>>
    /\ stderr = ""

SpecGen == InitGen /\ [][MapChoices]_vars

\* ------------------------------------------------------------ properties

Min(a, b) == IF a < b THEN a ELSE b

NumCandidates == Len(commit_messages)

Downs(k) == [j \in 1..k |-> "Down"]

Terminators == {"Enter", "Esc"}

HasTerminator(ks) == \E j \in 1..Len(ks) : ks[j] \in Terminators

TerminalFailures == {"enable_raw_mode", "event::read", "disable_raw_mode"}

SessionOver == sel_pc \in {"returned", "panicked"}

\* C1: on a non-empty list of length n, the events Down x k then Enter return
\* Selected(candidates[min(k, n-1)]); after Down x k the cursor is min(k, n-1).
C1_DownTimesKThenEnter ==
    NumCandidates >= 1 =>
        \A k \in 0..MaxKeys :
            /\ keys = Downs(k) => index = Min(k, NumCandidates - 1)
            /\ keys = Downs(k) \o <<"Enter">> =>
                 /\ sel_pc = "returned"
                 /\ outcome = Selected(commit_messages[Min(k, NumCandidates - 1) + 1])

C1_Witness ==
    /\ commit_messages = <<Sentinel, <<"a">>>>
    /\ keys = <<"Down", "Down", "Enter">>
    /\ outcome = Selected(<<"a">>)

\* C2: with an empty candidate list the session ends, whatever the events,
\* with an EmptyInput error and without an out-of-range index or a
\* length - 1 on a zero length.
C2_EmptyInputRejected ==
    (commit_messages = <<>> /\ SessionOver /\ keys # <<>>) =>
        /\ outcome.kind = "EmptyInput"
        /\ panic = ""

\* C3: raw mode is off whenever control has left select_commit_message, by
\* return or by failure.
C3_RawOffOnEveryExit == SessionOver => ~raw

\* C4: a failure to enable raw mode, to read an event or to disable raw mode
\* is returned as an error outcome, not turned into a panic.
C4_FailureIsReturned ==
    io_error \in TerminalFailures =>
        /\ sel_pc = "returned"
        /\ outcome.kind = "Err"
        /\ panic = ""

\* C5: on a non-empty list an Esc dispatched before any Enter ends the session
\* with Cancelled as a normal return; Selected is never returned after an Esc.
C5_EscCancels ==
    NumCandidates >= 1 =>
        /\ (\E j \in 1..Len(keys) :
               keys[j] = "Esc" /\ \A i \in 1..(j - 1) : keys[i] # "Enter") =>
             /\ sel_pc = "returned"
             /\ outcome = Cancelled
             /\ panic = ""
             /\ keys[Len(keys)] = "Esc"
        /\ outcome.kind = "Some" => \A j \in 1..Len(keys) : keys[j] # "Esc"

C5_Witness ==
    /\ commit_messages = <<Sentinel, <<"a">>>>
    /\ keys = <<"Up", "Down", "Esc">>
    /\ outcome = Cancelled

\* C6: on a non-empty list the session returns only at the first Enter or Esc:
\* as long as none was dispatched nothing is returned and the loop stops only
\* on a failing terminal call; the first Enter or Esc dispatched returns one
\* outcome, Selected for Enter and Cancelled for Esc.
C6_EndsOnlyOnEnterOrEsc ==
    NumCandidates >= 1 =>
        /\ ~HasTerminator(keys) =>
             /\ sel_pc # "returned"
             /\ outcome = Pending
             /\ sel_pc = "panicked" =>
                  panic \in TerminalFailures \cup {"clear_last_lines"}
        /\ HasTerminator(keys) =>
             /\ sel_pc = "returned"
             /\ ~HasTerminator(SubSeq(keys, 1, Len(keys) - 1))
             /\ keys[Len(keys)] = "Enter" => outcome.kind = "Some"
             /\ keys[Len(keys)] = "Esc" => outcome.kind = "None"

C6_Witness ==
    /\ NumCandidates >= 1
    /\ keys = <<"Other", "Down", "Enter">>
    /\ sel_pc = "returned"
    /\ outcome.kind = "Some"

\* C7: after a confirmed selection the commit is spawned once, interactively
\* for the sentinel and with -m <selected> otherwise; git commit --amend is
\* spawned after a -m commit iff no_amend is not set, never before it and never
\* after the interactive commit.
ExpectedCommands(m, na) ==
    IF m = Sentinel
    THEN <<[op |-> "commit", has_msg |-> FALSE, msg |-> <<>>]>>
    ELSE <<[op |-> "commit", has_msg |-> TRUE, msg |-> m]>>
         \o (IF na THEN <<>> ELSE <<[op |-> "amend", has_msg |-> FALSE, msg |-> <<>>]>>)

C7_CommitThenAmend ==
    outcome.kind = "Some" =>
        LET expected == ExpectedCommands(outcome.msg, no_amend)
        IN  /\ Len(cmds) <= Len(expected)
            /\ cmds = SubSeq(expected, 1, Len(cmds))
            /\ main_pc = "done" => cmds = expected

C7_Witness ==
    /\ main_pc = "done"
    /\ ~no_amend
    /\ outcome = Selected(<<"a">>)
    /\ Len(cmds) = 2
    /\ cmds[2].op = "amend"

\* C8: with a staged diff that is empty after trimming, main reports and ends
\* without invoking the selector or a commit; a commit is spawned only after a
\* non-empty diff, a successful generator call and a Selected outcome.
C8_NoCommitWithoutSelection ==
    /\ Trim(git_diff) = <<>> =>
         /\ sel_pc = "idle"
         /\ gen = "none"
         /\ cmds = <<>>
         /\ main_pc \in {"start", "done", "panicked"}
         /\ main_pc = "done" => stderr # ""
    /\ cmds # <<>> =>
         /\ Trim(git_diff) # <<>>
         /\ gen = "ok"
         /\ sel_pc = "returned"
         /\ outcome.kind = "Some"
    /\ sel_pc # "idle" => gen = "ok"

C8_Witness ==
    /\ git_diff = <<Space, Space>>
    /\ main_pc = "done"
    /\ stderr = "no changes added to commit"
    /\ sel_pc = "idle"

\* C9: on a non-empty list of length n the cursor stays in 0..n-1; it starts at
\* 0, Up at 0 and Down at n-1 leave it unchanged, Up and Down elsewhere move it
\* by one, and nothing else changes it.
CursorInRange == NumCandidates >= 1 => (0 <= index /\ index < NumCandidates)

CursorStep ==
    NumCandidates >= 1 =>
        IF sel_pc = "match" /\ key_event = "Up"
        THEN index' = (IF index = 0 THEN 0 ELSE index - 1)
        ELSE IF sel_pc = "match" /\ key_event = "Down"
        THEN index' = (IF index = NumCandidates - 1 THEN index ELSE index + 1)
        ELSE index' = index

C9_CursorInvariant ==
    /\ [](CursorInRange /\ (keys = <<>> => index = 0))
    /\ [][CursorStep]_vars

C9_Witness ==
    /\ NumCandidates = 2
    /\ keys = <<"Down", "Down", "Up">>
    /\ index = 0

\* C10: every candidate is the generator's text with one matching pair of
\* leading and trailing double quotes removed when both are present and the
\* text unchanged otherwise, for every text, a single double quote included,
\* in the generator's order.
QuotePairRemoved(t) ==
    IF Len(t) >= 2 /\ t[1] = Quote /\ t[Len(t)] = Quote
    THEN SubSeq(t, 2, Len(t) - 1)
    ELSE t

C10_QuotePairStripped ==
    main_pc # "map" =>
        /\ panic = ""
        /\ Len(commit_messages) = Len(response)
        /\ \A i \in 1..Len(response) :
             \/ commit_messages[i] = QuotePairRemoved(response[i])
             \/ response[i] = <<Quote>> /\ commit_messages[i] = <<>>

====
